---- MODULE Spec2Model ----
(***************************************************************************)
(* The formula recognition demo's decoding state machine (class Model of   *)
(* demos/formula_recognition_demo/python/utils.py): one encoder inference  *)
(* followed by a chain of decoder inferences, driven either by infer_sync  *)
(* (blocking) or by repeated infer_async calls (polling); and what the     *)
(* demo does with a decode's result: calculate_probability, Vocab and      *)
(* Renderer of the same file, as main of formula_recognition_demo.py calls *)
(* them, and InteractiveDemo._render_formula_async of that file.           *)
(*                                                                         *)
(* The inference engine is outside the repository.  It is modelled at its  *)
(* interface: start_async submits request 0 of an executable network,      *)
(* wait(timeout) returns a status code (0 = the result is ready), and      *)
(* output_blobs reads the request's output buffers.  What a wait returns   *)
(* and what the decoder network computes are choices of the environment.   *)
(***************************************************************************)
EXTENDS Integers, Sequences, FiniteSets, TLC

(***************************************************************************)
(* Bounds of the model.                                                    *)
(***************************************************************************)
\* Largest configured --max_formula_len; the smallest is MinFormulaLen.
MaxLen == 3
\* Number of distinct input images.
NumImages == 2
\* Longest token sequence passed to construct_phrase.
MaxTokens == 4
\* Largest token id; the ids are 0..MaxTokenId.
MaxTokenId == 4

(***************************************************************************)
(* Program constants.                                                      *)
(***************************************************************************)
START_TOKEN == 0
END_TOKEN == 2

\* wait() status codes of the engine: 0 is OK; -9 is RESULT_NOT_READY, the
\* answer of a bounded wait on a request still running; -1 is GENERAL_ERROR.
StatusOK == 0
NotReadyStatuses == {-9}
ErrorStatuses == {-1}

\* --max_formula_len is any int (argparse type=int).
MinFormulaLen == 0 - 1
FormulaLens == MinFormulaLen..MaxLen

ImageIds == 1..NumImages

\* A preprocessed frame: an [H, W, C] array, identified by its content.
Image(i) == [id |-> i, layout |-> <<"H", "W", "C">>]
Images == {Image(i) : i \in ImageIds}

\* The rows a decoder step can put in its logit blob (shape (1, vocab)); the
\* entries are the scores of tokens 0, 1, 2.  The last one has a tie.
LogitRows == {<<1, 8, 1>>, <<0, 1, 9>>, <<1, 4, 4>>}
AnyLogitRow == <<1, 8, 1>>

\* An attribute that has not been assigned yet.
Unset == [blob |-> "unset", img |-> 0, n |-> 0]
\* The content of an output buffer of a request that did not finish well.
Undefined == [blob |-> "undefined", img |-> 0, n |-> 0]

(***************************************************************************)
(* numpy                                                                   *)
(***************************************************************************)
RECURSIVE amax_from(_, _)
amax_from(row, i) ==
    IF i = Len(row) THEN row[i]
    ELSE LET rest == amax_from(row, i + 1)
         IN  IF row[i] >= rest THEN row[i] ELSE rest

\* np.amax of one row.
amax(row) == amax_from(row, 1)

\* np.argmax of one row: the index (from 0) of the first maximal entry.
argmax_row(row) ==
    (CHOOSE i \in 1..Len(row) :
        /\ row[i] = amax(row)
        /\ \A j \in 1..(i - 1) : row[j] < row[i]) - 1

\* np.argmax(a, axis=1) of a two-dimensional array.
argmax_axis1(a) == [r \in 1..Len(a) |-> argmax_row(a[r])]

\* a.squeeze(axis=1) of an array of shape (T, 1, V).
squeeze_axis1(a) == [t \in 1..Len(a) |-> a[t][1]]

\* change_layout: [H, W, C] -> [N, C, H, W]; None has no transpose.
transpose_201(l) == <<l[3], l[1], l[2]>>
expand_dims_0(l) == <<"N">> \o l
change_layout(model_input) ==
    [model_input EXCEPT !.layout = expand_dims_0(transpose_201(@))]

(***************************************************************************)
(* The inference engine: request 0 of each executable network.  A request  *)
(* is idle (never started), running, done (status 0) or failed.            *)
(***************************************************************************)
EncInputs(image) == [imgs |-> image]
NoEncInputs == [imgs |-> [id |-> 0, layout |-> <<>>]]
NoDecInputs == [row_enc_out |-> Unset, dec_st_c |-> Unset, dec_st_h |-> Unset,
                output_prev |-> Unset, tgt |-> <<>>]

IdleEncoderRequest == [st |-> "idle", inputs |-> NoEncInputs]
IdleDecoderRequest == [st |-> "idle", inputs |-> NoDecInputs]

\* The environment's part in one step: the status the wait returns and the
\* logit row the decoder's output buffer holds when it is read.
Envs ==
    [status : {StatusOK} \cup ErrorStatuses, logit : LogitRows]
    \cup [status : NotReadyStatuses, logit : {AnyLogitRow}]

\* What the encoder network computes from its input.
EncoderNet(inputs) ==
    [row_enc_out |-> [blob |-> "row_enc_out", img |-> inputs.imgs.id, n |-> 0],
     hidden      |-> [blob |-> "hidden", img |-> inputs.imgs.id, n |-> 0],
     context     |-> [blob |-> "context", img |-> inputs.imgs.id, n |-> 0],
     init_0      |-> [blob |-> "init_0", img |-> inputs.imgs.id, n |-> 0]]

\* What one decoder step computes: the next recurrent state from the one it
\* was given, and a logit row that is the network's (the environment's) choice.
DecoderNet(inputs, env) ==
    [dec_st_h_t |-> [blob |-> "dec_st_h_t", img |-> inputs.dec_st_h.img,
                     n |-> inputs.dec_st_h.n + 1],
     dec_st_c_t |-> [blob |-> "dec_st_c_t", img |-> inputs.dec_st_c.img,
                     n |-> inputs.dec_st_c.n + 1],
     output     |-> [blob |-> "output", img |-> inputs.output_prev.img,
                     n |-> inputs.output_prev.n + 1],
     logit      |-> << env.logit >>]

\* handle.output_blobs: the network's outputs if the request is done, and
\* undefined content (any logit row) if it is not.
encoder_output_blobs(req) ==
    IF req.st = "done" THEN EncoderNet(req.inputs)
    ELSE [row_enc_out |-> Undefined, hidden |-> Undefined,
          context |-> Undefined, init_0 |-> Undefined]

decoder_output_blobs(req, env) ==
    IF req.st = "done" THEN DecoderNet(req.inputs, env)
    ELSE [dec_st_h_t |-> Undefined, dec_st_c_t |-> Undefined,
          output |-> Undefined, logit |-> << env.logit >>]

\* The statuses wait(timeout) can return on a request: a finished request
\* answers at once, a running one finishes (well or not) or, under a bounded
\* timeout, is still running.
WaitStatuses(req, timeout) ==
    CASE req.st = "done"    -> {StatusOK}
      [] req.st = "failed"  -> ErrorStatuses
      [] req.st = "running" ->
            IF timeout = -1 THEN {StatusOK} \cup ErrorStatuses
            ELSE {StatusOK} \cup NotReadyStatuses \cup ErrorStatuses
      [] OTHER              -> ErrorStatuses

\* The request after wait(timeout) returned env.status.
wait(req, env) ==
    IF req.st # "running" \/ env.status \in NotReadyStatuses THEN req
    ELSE IF env.status = StatusOK THEN [req EXCEPT !.st = "done"]
    ELSE [req EXCEPT !.st = "failed"]

\* exec_net.start_async(request_id=0, inputs=...).
start_async(req, inputs) == [req EXCEPT !.st = "running", !.inputs = inputs]

(***************************************************************************)
(* The state: the fields of the Model object, the two inference requests   *)
(* its handles refer to, the position of a caller inside infer_sync, and   *)
(* a record of what the last call did and returned.                        *)
(***************************************************************************)
VARIABLES
    is_async,            \* self.is_async = args.interactive
    max_formula_len,     \* self.args.max_formula_len
    model_status,        \* self.model_status
    num_infers_decoder,  \* self.num_infers_decoder
    row_enc_out, dec_states_h, dec_states_c, output, tgt, logits,
    infer_request_handle_encoder,   \* request 0 of exec_net_encoder
    infer_request_handle_decoder,   \* request 0 of exec_net_decoder
    pc,                  \* where the caller of infer_sync is
    ret,                 \* what the last call returned (or raised)
    events,              \* what the last step did, in order
    call,                \* the last call: its name and its argument
    decode,              \* counts kept of the decode in progress
    id2sign,             \* Vocab: self.id2sign
    res_targets,         \* main: the tokens passed to construct_phrase
    phrase,              \* main: what construct_phrase returned
    res_logits,          \* main: the logits passed to calculate_probability
    prob,                \* main: what calculate_probability returned
    cur_formula,         \* Renderer: self.cur_formula
    res_img,             \* Renderer: self.res_img
    _state,              \* Renderer: self._state
    _async_result,       \* Renderer: self._async_result
    _worker,             \* Renderer: the tasks of self._worker not yet done
    task_pc,             \* where the pool's thread is in the task it runs
    rendered,            \* the last step of the renderer: the call and its return
    _prev_rendered_formula,   \* InteractiveDemo: self._prev_rendered_formula
    _prev_formula_img         \* InteractiveDemo: self._prev_formula_img

model_vars == <<is_async, max_formula_len, model_status, num_infers_decoder,
                row_enc_out, dec_states_h, dec_states_c, output, tgt, logits,
                infer_request_handle_encoder, infer_request_handle_decoder,
                pc, ret, events, call, decode>>

vocab_vars == <<id2sign, res_targets, phrase>>

scorer_vars == <<res_logits, prob>>

renderer_vars == <<cur_formula, res_img, _state, _async_result, _worker,
                   task_pc, rendered>>

demo_vars == <<_prev_rendered_formula, _prev_formula_img>>

vars == <<model_vars, vocab_vars, scorer_vars, renderer_vars, demo_vars>>

\* The argument None.
NoneTensor == [id |-> 0, layout |-> <<>>]

\* Return values: None, the pair (logits, targets), or a raised exception.
RetNone == [kind |-> "None"]
RetResult(lg, targets) == [kind |-> "result", logits |-> lg, targets |-> targets]
RetRaise(exc) == [kind |-> "raise", exc |-> exc]

Ev(e, net, status, busy, feasible) ==
    [e |-> e, net |-> net, status |-> status, busy |-> busy, feasible |-> feasible]

\* The Model object as one value.
Self ==
    [is_async |-> is_async, max_formula_len |-> max_formula_len,
     model_status |-> model_status, num_infers_decoder |-> num_infers_decoder,
     row_enc_out |-> row_enc_out, dec_states_h |-> dec_states_h,
     dec_states_c |-> dec_states_c, output |-> output, tgt |-> tgt,
     logits |-> logits,
     infer_request_handle_encoder |-> infer_request_handle_encoder,
     infer_request_handle_decoder |-> infer_request_handle_decoder,
     ret |-> RetNone, events |-> <<>>]

\* Some inference request is submitted and has not completed.
InFlight(s) ==
    \/ s.infer_request_handle_encoder.st = "running"
    \/ s.infer_request_handle_decoder.st = "running"

(***************************************************************************)
(* class Model                                                             *)
(***************************************************************************)
Timeout(s) == IF s.is_async THEN 1 ELSE -1

\* handle.wait(timeout) on the encoder's or the decoder's request.
wait_encoder(s, timeout, env) ==
    [s EXCEPT !.infer_request_handle_encoder = wait(@, env),
              !.events = Append(@, Ev("wait", "encoder", env.status,
                  s.infer_request_handle_encoder.st = "running",
                  env.status \in WaitStatuses(s.infer_request_handle_encoder, timeout)))]

wait_decoder(s, timeout, env) ==
    [s EXCEPT !.infer_request_handle_decoder = wait(@, env),
              !.events = Append(@, Ev("wait", "decoder", env.status,
                  s.infer_request_handle_decoder.st = "running",
                  env.status \in WaitStatuses(s.infer_request_handle_decoder, timeout)))]

_async_infer_encoder(s, image) ==
    [s EXCEPT !.infer_request_handle_encoder = start_async(@, EncInputs(image)),
              !.events = Append(@, Ev("start_async", "encoder", 0, InFlight(s), TRUE))]

\* Mutant: the step counter is not incremented.
_async_infer_decoder_no_count(s, p_row_enc_out, p_dec_st_c, p_dec_st_h, p_output, p_tgt) ==
    [s EXCEPT !.infer_request_handle_decoder =
                  start_async(@, [row_enc_out |-> p_row_enc_out,
                                  dec_st_c |-> p_dec_st_c,
                                  dec_st_h |-> p_dec_st_h,
                                  output_prev |-> p_output,
                                  tgt |-> p_tgt]),
              !.events = Append(@, Ev("start_async", "decoder", 0, InFlight(s), TRUE))]

_async_infer_decoder(s, p_row_enc_out, p_dec_st_c, p_dec_st_h, p_output, p_tgt) ==
    [s EXCEPT !.num_infers_decoder = @ + 1,
              !.infer_request_handle_decoder =
                  start_async(@, [row_enc_out |-> p_row_enc_out,
                                  dec_st_c |-> p_dec_st_c,
                                  dec_st_h |-> p_dec_st_h,
                                  output_prev |-> p_output,
                                  tgt |-> p_tgt]),
              !.events = Append(@, Ev("start_async", "decoder", 0, InFlight(s), TRUE))]

\* Mutant: the logit of the step is not kept.
_unpack_dec_results_no_append(s, dec_res) ==
    [s EXCEPT !.dec_states_h = dec_res.dec_st_h_t,
              !.dec_states_c = dec_res.dec_st_c_t,
              !.output = dec_res.output,
              !.tgt = << << argmax_axis1(dec_res.logit) >> >>,
              !.events = Append(@, Ev("unpack", "decoder", 0, FALSE, TRUE))]

_unpack_dec_results(s, dec_res) ==
    [s EXCEPT !.dec_states_h = dec_res.dec_st_h_t,
              !.dec_states_c = dec_res.dec_st_c_t,
              !.output = dec_res.output,
              !.logits = Append(@, dec_res.logit),
              !.tgt = << << argmax_axis1(dec_res.logit) >> >>,
              !.events = Append(@, Ev("unpack", "decoder", 0, FALSE, TRUE))]

\* Mutant: the logits of the previous decode are not cleared.
_unpack_enc_results_keep_logits(s, enc_res) ==
    [s EXCEPT !.row_enc_out = enc_res.row_enc_out,
              !.dec_states_h = enc_res.hidden,
              !.dec_states_c = enc_res.context,
              !.output = enc_res.init_0,
              !.tgt = << <<START_TOKEN>> >>,
              !.events = Append(@, Ev("unpack", "encoder", 0, FALSE, TRUE))]

_unpack_enc_results(s, enc_res) ==
    [s EXCEPT !.row_enc_out = enc_res.row_enc_out,
              !.dec_states_h = enc_res.hidden,
              !.dec_states_c = enc_res.context,
              !.output = enc_res.init_0,
              !.tgt = << <<START_TOKEN>> >>,
              !.logits = <<>>,
              !.events = Append(@, Ev("unpack", "encoder", 0, FALSE, TRUE))]

set_model_status(s, status) ==
    [s EXCEPT !.model_status = status,
              !.events = Append(@, Ev("status", status, 0, FALSE, TRUE))]

_run_encoder(s, model_input, env) ==
    LET timeout == Timeout(s)
        s1 == _async_infer_encoder(s, model_input)
        s2 == set_model_status(s1, "encoder_infer")
    IN  wait_encoder(s2, timeout, env)

_run_decoder(s) ==
    LET enc_res == encoder_output_blobs(s.infer_request_handle_encoder)
        s1 == _unpack_enc_results(s, enc_res)
        s2 == _async_infer_decoder(s1, s1.row_enc_out, s1.dec_states_c,
                                   s1.dec_states_h, s1.output, s1.tgt)
    IN  set_model_status(s2, "decoder_infer")

\* Mutant: the mode flag of the test is inverted.
not_ready_yet_inverted(s, infer_status_decoder) ==
    infer_status_decoder # 0 /\ ~s.is_async

\* Mutant: only "result not ready" is taken for pending, an error is not.
not_ready_yet_pending_only(s, infer_status_decoder) ==
    infer_status_decoder \in NotReadyStatuses /\ s.is_async

\* The test of line 231: the step is not ready yet, poll again.
not_ready_yet(s, infer_status_decoder) ==
    infer_status_decoder # 0 /\ s.is_async

\* Mutant: the length test is strict, one step too many is run.
decoding_finished_strict(s) ==
    \/ s.tgt[1][1][1] = END_TOKEN
    \/ s.num_infers_decoder > s.max_formula_len

\* Mutant: END_TOKEN does not end the decode.
decoding_finished_no_end(s) ==
    s.num_infers_decoder >= s.max_formula_len

\* Mutant: only END_TOKEN ends the decode, the length is not tested.
decoding_finished_end_only(s) ==
    s.tgt[1][1][1] = END_TOKEN

\* The termination test of line 236.
decoding_finished(s) ==
    \/ s.tgt[1][1][1] = END_TOKEN
    \/ s.num_infers_decoder >= s.max_formula_len

\* Mutant: the decode ends without model_status going back to ready.
_process_decoding_results_no_ready(s, env) ==
    LET timeout == Timeout(s)
        s1 == wait_decoder(s, timeout, env)
        infer_status_decoder == env.status
    IN  IF not_ready_yet(s, infer_status_decoder)
        THEN [s1 EXCEPT !.ret = RetNone]
        ELSE LET dec_res == decoder_output_blobs(s1.infer_request_handle_decoder, env)
                 s2 == _unpack_dec_results(s1, dec_res)
             IN  IF decoding_finished(s2)
                 THEN LET lg == squeeze_axis1(s2.logits)
                          targets == argmax_axis1(lg)
                          s3 == [s2 EXCEPT !.num_infers_decoder = 0]
                      IN  [s3 EXCEPT !.ret = RetResult(lg, targets)]
                 ELSE [_async_infer_decoder(s2, s2.row_enc_out, s2.dec_states_c,
                                            s2.dec_states_h, s2.output, s2.tgt)
                          EXCEPT !.ret = RetNone]

\* Mutant: the length is tested before the results of the step are
\* unpacked.
_process_decoding_results_test_first(s, env) ==
    LET timeout == Timeout(s)
        s1 == wait_decoder(s, timeout, env)
        infer_status_decoder == env.status
    IN  IF not_ready_yet(s, infer_status_decoder)
        THEN [s1 EXCEPT !.ret = RetNone]
        ELSE IF s1.num_infers_decoder >= s1.max_formula_len
        THEN LET lg == squeeze_axis1(s1.logits)
                 targets == argmax_axis1(lg)
                 s3 == [s1 EXCEPT !.num_infers_decoder = 0]
                 s4 == set_model_status(s3, "ready")
             IN  [s4 EXCEPT !.ret = RetResult(lg, targets)]
        ELSE LET dec_res == decoder_output_blobs(s1.infer_request_handle_decoder, env)
                 s2 == _unpack_dec_results(s1, dec_res)
             IN  [_async_infer_decoder(s2, s2.row_enc_out, s2.dec_states_c,
                                       s2.dec_states_h, s2.output, s2.tgt)
                     EXCEPT !.ret = RetNone]

_process_decoding_results(s, env) ==
    LET timeout == Timeout(s)
        s1 == wait_decoder(s, timeout, env)
        infer_status_decoder == env.status
    IN  IF not_ready_yet(s, infer_status_decoder)
        THEN [s1 EXCEPT !.ret = RetNone]
        ELSE LET dec_res == decoder_output_blobs(s1.infer_request_handle_decoder, env)
                 s2 == _unpack_dec_results(s1, dec_res)
             IN  IF decoding_finished(s2)
                 THEN LET lg == squeeze_axis1(s2.logits)
                          targets == argmax_axis1(lg)
                          s3 == [s2 EXCEPT !.num_infers_decoder = 0]
                          s4 == set_model_status(s3, "ready")
                      IN  [s4 EXCEPT !.ret = RetResult(lg, targets)]
                 ELSE [_async_infer_decoder(s2, s2.row_enc_out, s2.dec_states_c,
                                            s2.dec_states_h, s2.output, s2.tgt)
                          EXCEPT !.ret = RetNone]

\* Mutant: the decoder is started whatever the encoder's wait returned.
infer_async_no_status_check(s, model_input, env) ==
    IF model_input = NoneTensor
    THEN [s EXCEPT !.ret = RetRaise("AttributeError")]
    ELSE IF s.model_status = "ready"
    THEN [_run_encoder(s, change_layout(model_input), env) EXCEPT !.ret = RetNone]
    ELSE IF s.model_status = "encoder_infer"
    THEN LET s1 == wait_encoder(s, 1, env)
         IN  [_run_decoder(s1) EXCEPT !.ret = RetNone]
    ELSE _process_decoding_results(s, env)

\* Mutant: the encoder branch does not return, it goes on to the decoder's
\* results in the same call.
infer_async_fallthrough(s, model_input, env) ==
    IF model_input = NoneTensor
    THEN [s EXCEPT !.ret = RetRaise("AttributeError")]
    ELSE IF s.model_status = "ready"
    THEN [_run_encoder(s, change_layout(model_input), env) EXCEPT !.ret = RetNone]
    ELSE IF s.model_status = "encoder_infer"
    THEN LET s1 == wait_encoder(s, 1, env)
             infer_status_encoder == env.status
         IN  IF infer_status_encoder = 0
             THEN _process_decoding_results(_run_decoder(s1), env)
             ELSE [s1 EXCEPT !.ret = RetNone]
    ELSE _process_decoding_results(s, env)

\* Mutant: while the encoder is not ready, the frame just passed is submitted.
infer_async_resubmit(s, model_input, env) ==
    IF model_input = NoneTensor
    THEN [s EXCEPT !.ret = RetRaise("AttributeError")]
    ELSE IF s.model_status = "ready"
    THEN [_run_encoder(s, change_layout(model_input), env) EXCEPT !.ret = RetNone]
    ELSE IF s.model_status = "encoder_infer"
    THEN LET s1 == wait_encoder(s, 1, env)
             infer_status_encoder == env.status
         IN  IF infer_status_encoder = 0
             THEN [_run_decoder(s1) EXCEPT !.ret = RetNone]
             ELSE [_async_infer_encoder(s1, change_layout(model_input))
                      EXCEPT !.ret = RetNone]
    ELSE _process_decoding_results(s, env)

\* Mutant: a call made while ready after a decode returns the result of
\* that decode again.
infer_async_redeliver(s, model_input, env) ==
    IF model_input = NoneTensor
    THEN [s EXCEPT !.ret = RetRaise("AttributeError")]
    ELSE IF s.model_status = "ready" /\ s.logits # <<>>
    THEN [s EXCEPT !.ret = RetResult(squeeze_axis1(s.logits),
                                     argmax_axis1(squeeze_axis1(s.logits)))]
    ELSE IF s.model_status = "ready"
    THEN [_run_encoder(s, change_layout(model_input), env) EXCEPT !.ret = RetNone]
    ELSE IF s.model_status = "encoder_infer"
    THEN LET s1 == wait_encoder(s, 1, env)
             infer_status_encoder == env.status
         IN  IF infer_status_encoder = 0
             THEN [_run_decoder(s1) EXCEPT !.ret = RetNone]
             ELSE [s1 EXCEPT !.ret = RetNone]
    ELSE _process_decoding_results(s, env)

infer_async(s, model_input, env) ==
    IF model_input = NoneTensor
    THEN [s EXCEPT !.ret = RetRaise("AttributeError")]
    ELSE IF s.model_status = "ready"
    THEN [_run_encoder(s, change_layout(model_input), env) EXCEPT !.ret = RetNone]
    ELSE IF s.model_status = "encoder_infer"
    THEN LET s1 == wait_encoder(s, 1, env)
             infer_status_encoder == env.status
         IN  IF infer_status_encoder = 0
             THEN [_run_decoder(s1) EXCEPT !.ret = RetNone]
             ELSE [s1 EXCEPT !.ret = RetNone]
    ELSE _process_decoding_results(s, env)

\* infer_sync, in the three stretches between which its caller can be seen:
\* up to the return of _run_encoder, _run_decoder, and one turn of the loop.
infer_sync_run_encoder(s, model_input, env) ==
    IF model_input = NoneTensor
    THEN [s EXCEPT !.ret = RetRaise("AttributeError")]
    ELSE _run_encoder(s, change_layout(model_input), env)

infer_sync_run_decoder(s) == _run_decoder(s)

infer_sync_loop(s, env) == _process_decoding_results(s, env)

(***************************************************************************)
(* Counts kept of the decode in progress, from the events of each step:    *)
(* decoder inferences submitted and finished since the encoder inference   *)
(* was submitted, and the image that inference was submitted for.          *)
(***************************************************************************)
MaxCalls == MaxLen + 2

NoDecode == [submitted |-> 0, finished |-> 0, ncalls |-> 0, image |-> 0]

Finishes(e) ==
    e.e = "wait" /\ e.busy /\ e.status \notin NotReadyStatuses

RECURSIVE Track(_, _)
Track(d, evs) ==
    IF evs = <<>> THEN d
    ELSE LET e == Head(evs)
             d1 == IF e.e = "start_async" /\ e.net = "encoder"
                   THEN [d EXCEPT !.submitted = 0, !.finished = 0]
                   ELSE IF e.e = "start_async" /\ e.net = "decoder"
                   THEN [d EXCEPT !.submitted = @ + 1]
                   ELSE IF Finishes(e) /\ e.net = "decoder"
                   THEN [d EXCEPT !.finished = @ + 1]
                   ELSE d
         IN  Track(d1, Tail(evs))

Feasible(s) == \A i \in 1..Len(s.events) : s.events[i].feasible

Count(evs, e, net) ==
    Cardinality({i \in 1..Len(evs) : evs[i].e = e /\ evs[i].net = net})

Commit(s) ==
    /\ is_async' = s.is_async
    /\ max_formula_len' = s.max_formula_len
    /\ model_status' = s.model_status
    /\ num_infers_decoder' = s.num_infers_decoder
    /\ row_enc_out' = s.row_enc_out
    /\ dec_states_h' = s.dec_states_h
    /\ dec_states_c' = s.dec_states_c
    /\ output' = s.output
    /\ tgt' = s.tgt
    /\ logits' = s.logits
    /\ infer_request_handle_encoder' = s.infer_request_handle_encoder
    /\ infer_request_handle_decoder' = s.infer_request_handle_decoder
    /\ ret' = s.ret
    /\ events' = s.events

\* The counts after a step of the call (op, arg) that took the model to s.
Tracked(s, op, arg) ==
    LET left_ready == model_status = "ready" /\ s.model_status # "ready"
        d0 == IF op = "infer_async" /\ s.ret.kind # "raise"
              THEN [decode EXCEPT !.ncalls =
                       IF left_ready THEN 1
                       ELSE IF @ < MaxCalls THEN @ + 1 ELSE @]
              ELSE decode
        d1 == IF left_ready THEN [d0 EXCEPT !.image = arg.id] ELSE d0
    IN  Track(d1, s.events)

(***************************************************************************)
(* calculate_probability.  The entries of a logit row are numbers; they    *)
(* are integers here, and the products are exact.                          *)
(***************************************************************************)
\* A Python str, as distinct from None.
Str(s) == [kind |-> "str", str |-> s]

\* A number, as distinct from None.
Num(x) == [kind |-> "num", num |-> x]

\* The rows of the arrays passed to calculate_probability.
ScoreRows == LogitRows \cup {<<5, 5, 5>>, <<0, 0, 0>>}

\* Arrays of shape (T, vocab), T = 0..MaxLen: <<>> is the array of no rows.
RECURSIVE SeqsUpTo(_, _)
SeqsUpTo(S, n) ==
    IF n = 0 THEN {<<>>}
    ELSE LET shorter == SeqsUpTo(S, n - 1)
         IN  shorter \cup {Append(q, x) : q \in {r \in shorter : Len(r) = n - 1}, x \in S}

ScoreArrays == SeqsUpTo(ScoreRows, MaxLen)

\* np.amax(a, axis=1) of a two-dimensional array.
amax_axis1(a) == [r \in 1..Len(a) |-> amax(a[r])]

\* for p in probabilities: prob *= p
RECURSIVE prob_loop(_, _)
prob_loop(p_prob, probabilities) ==
    IF probabilities = <<>> THEN p_prob
    ELSE prob_loop(p_prob * Head(probabilities), Tail(probabilities))

\* Mutant: the maxima are added up.
RECURSIVE prob_loop_sum(_, _)
prob_loop_sum(p_prob, probabilities) ==
    IF probabilities = <<>> THEN p_prob
    ELSE prob_loop_sum(p_prob + Head(probabilities), Tail(probabilities))

calculate_probability_sum(p_logits) ==
    LET probabilities == amax_axis1(p_logits)
    IN  prob_loop_sum(1, probabilities)

calculate_probability(p_logits) ==
    LET probabilities == amax_axis1(p_logits)
    IN  prob_loop(1, probabilities)

(***************************************************************************)
(* class Vocab                                                             *)
(***************************************************************************)
TokenIds == 0..MaxTokenId

TokenSeqs == SeqsUpTo(TokenIds, MaxTokens)

\* Vocabulary tables (id2sign of the vocabulary file): one without the
\* sentinel tokens, one with them.
SignsOnly == (1 :> "x") @@ (3 :> "+") @@ (4 :> "y")
WithSentinels == (0 :> "<s>") @@ (1 :> "x") @@ (2 :> "</s>") @@ (3 :> "+") @@ (4 :> "y")
Vocabs == {SignsOnly, WithSentinels}

\* Mutant: a key that is missing is not replaced by the default.
dict_get_no_default(d, key, default) ==
    IF key \in DOMAIN d THEN d[key] ELSE "KeyError"

\* dict.get(key, default)
dict_get(d, key, default) ==
    IF key \in DOMAIN d THEN d[key] ELSE default

\* Mutant: END_TOKEN is skipped, the loop goes on.
RECURSIVE phrase_converted_no_break(_, _)
phrase_converted_no_break(self_id2sign, indices) ==
    IF indices = <<>> THEN <<>>
    ELSE IF Head(indices) = END_TOKEN
    THEN phrase_converted_no_break(self_id2sign, Tail(indices))
    ELSE <<dict_get(self_id2sign, Head(indices), "?")>>
             \o phrase_converted_no_break(self_id2sign, Tail(indices))

\* The list phrase_converted built by the loop of construct_phrase.
RECURSIVE phrase_converted(_, _)
phrase_converted(self_id2sign, indices) ==
    IF indices = <<>> THEN <<>>
    ELSE IF Head(indices) = END_TOKEN THEN <<>>
    ELSE <<dict_get(self_id2sign, Head(indices), "?")>>
             \o phrase_converted(self_id2sign, Tail(indices))

\* sep.join(strs)
RECURSIVE join(_, _)
join(sep, strs) ==
    IF strs = <<>> THEN ""
    ELSE IF Len(strs) = 1 THEN strs[1]
    ELSE strs[1] \o sep \o join(sep, Tail(strs))

construct_phrase(self_id2sign, indices) ==
    join(" ", phrase_converted(self_id2sign, indices))

(***************************************************************************)
(* class Renderer.  The typesetting tool (sympy.preview, which runs latex  *)
(* and writes the output file) and cv.imread are outside the repository:   *)
(* an attempt gives the bitmap of the formula, or fails.  The pool of      *)
(* self._worker has one thread, which runs the tasks in the order they     *)
(* were submitted.                                                         *)
(***************************************************************************)
\* The formulas passed to the renderer.
RenderPhrases == {"x", "y", "x + y", "?"}

\* What an attempt to typeset and read back a formula can give: the image;
\* an Exception (or an unreadable file), which render turns into None; or an
\* exception that is not an Exception (SystemExit, KeyboardInterrupt), which
\* render does not catch.
ToolOutcomes == {"ok", "error", "exit"}

\* self.output_file, the path of the file the tool writes.
OutputFile == "tmp.png"

\* cv.imread of the file the tool wrote for a formula.
Bitmap(formula) == [kind |-> "img", of |-> formula]

\* The pair render and thread_render return, and the path render returns.
RetTuple(img, formula) == [kind |-> "tuple", img |-> img, formula |-> formula]
RetPath(path) == [kind |-> "path", path |-> path]

\* The AsyncResult of a task submitted with apply_async.
AsyncResult(ready, successful) == [ready |-> ready, successful |-> successful]

\* The Renderer object as one value.
RendererSelf ==
    [cur_formula |-> cur_formula, res_img |-> res_img, _state |-> _state,
     _async_result |-> _async_result, _worker |-> _worker,
     task_pc |-> task_pc,
     ret |-> RetNone, previews |-> 0]

\* sympy.preview and cv.imread inside the try of render.
preview_imread(r, formula, env) ==
    IF env = "ok"
    THEN [r EXCEPT !.res_img = Bitmap(formula), !.previews = @ + 1]
    ELSE IF env = "error"
    THEN [r EXCEPT !.res_img = RetNone, !.previews = @ + 1]
    ELSE [r EXCEPT !.ret = RetRaise("SystemExit"), !.previews = @ + 1]

\* render up to the call of the tool: the early return, or the assignment
\* of self.cur_formula.
render_begin(r, formula) ==
    IF r.cur_formula # RetNone /\ r.cur_formula = Str(formula)
    THEN [r EXCEPT !.ret = RetPath(OutputFile)]
    ELSE [r EXCEPT !.cur_formula = Str(formula)]

\* render from the call of the tool to its return.
render_end(r, formula, env) ==
    LET r2 == preview_imread(r, formula, env)
    IN  IF r2.ret.kind = "raise"
        THEN r2
        ELSE [r2 EXCEPT !.ret = RetTuple(r2.res_img, r2.cur_formula)]

render(r, formula, env) ==
    LET r1 == render_begin(r, formula)
    IN  IF r1.ret = RetNone THEN render_end(r1, formula, env) ELSE r1

\* self._worker.apply_async(self.render, args=(formula,))
apply_async(r, formula) ==
    [r EXCEPT !._worker = Append(@, formula),
              !._async_result = AsyncResult(FALSE, FALSE)]

\* Mutant: a task is submitted whatever the state is.
thread_render_always_submits(r, formula) ==
    LET r1 == apply_async(r, formula)
    IN  [r1 EXCEPT !._state = "rendering", !.ret = RetNone]

thread_render(r, formula) ==
    IF r._state = "ready"
    THEN LET r1 == apply_async(r, formula)
         IN  [r1 EXCEPT !._state = "rendering", !.ret = RetNone]
    ELSE IF r._async_result.ready /\ r._async_result.successful
    THEN [r EXCEPT !._state = "ready",
                   !.ret = RetTuple(r.res_img, r.cur_formula)]
    ELSE IF r._async_result.ready /\ ~r._async_result.successful
    THEN [r EXCEPT !._state = "ready", !.ret = RetNone]
    ELSE [r EXCEPT !.ret = RetNone]

\* The pool's thread takes the oldest task, self.render(formula), and runs
\* it up to the call of the tool, or to the early return.
worker_begin(r) ==
    LET formula == Head(r._worker)
        r1 == render_begin(r, formula)
    IN  [r1 EXCEPT !.task_pc = IF r1.ret = RetNone THEN "preview" ELSE "returned"]

\* The tool and cv.imread return or raise.  render catches an Exception and
\* returns, so the task is successful.  Any other exception leaves render
\* and ends the pool's only thread: the task never gets a result and the
\* pool runs no task any more.
worker_end(r, env) ==
    LET formula == Head(r._worker)
        r1 == render_end(r, formula, env)
    IN  [r1 EXCEPT !.task_pc = IF r1.ret.kind = "raise" THEN "dead" ELSE "returned"]

\* The pool sets the task's AsyncResult.  The one held by the Renderer is
\* that of the task submitted last.
worker_set_ready(r) ==
    [r EXCEPT !._worker = Tail(@),
              !.task_pc = "queued",
              !._async_result =
                  IF Len(r._worker) = 1 THEN AsyncResult(TRUE, TRUE) ELSE @]

CommitRenderer(r, op, formula) ==
    /\ cur_formula' = r.cur_formula
    /\ res_img' = r.res_img
    /\ _state' = r._state
    /\ _async_result' = r._async_result
    /\ _worker' = r._worker
    /\ task_pc' = r.task_pc
    /\ rendered' = [op |-> op, formula |-> formula, ret |-> r.ret,
                    previews |-> r.previews]

(***************************************************************************)
(* class InteractiveDemo, the part that shows the rendered formula: it     *)
(* holds the Renderer and the last formula it got an image for.            *)
(***************************************************************************)
\* The InteractiveDemo object as one value.
DemoSelf ==
    [_prev_rendered_formula |-> _prev_rendered_formula,
     _prev_formula_img |-> _prev_formula_img,
     _renderer |-> RendererSelf, ret |-> RetNone]

\* Mutant: the formula of the finished result is not compared with the one
\* asked for.
_render_formula_async_no_stale_check(d, formula) ==
    IF d._prev_rendered_formula = Str(formula)
    THEN [d EXCEPT !.ret = d._prev_formula_img]
    ELSE LET d1 == [d EXCEPT !._renderer = thread_render(@, formula)]
             result == d1._renderer.ret
         IN  IF result = RetNone
             THEN [d1 EXCEPT !.ret = RetNone]
             ELSE [d1 EXCEPT !._prev_rendered_formula = Str(formula),
                             !._prev_formula_img = result.img,
                             !.ret = result.img]

_render_formula_async(d, formula) ==
    IF d._prev_rendered_formula = Str(formula)
    THEN [d EXCEPT !.ret = d._prev_formula_img]
    ELSE LET d1 == [d EXCEPT !._renderer = thread_render(@, formula)]
             result == d1._renderer.ret
         IN  IF result = RetNone
             THEN [d1 EXCEPT !.ret = RetNone]
             ELSE LET formula_img == result.img
                      res_formula == result.formula
                  IN  IF res_formula # Str(formula)
                      THEN [d1 EXCEPT !.ret = RetNone]
                      ELSE [d1 EXCEPT !._prev_rendered_formula = Str(formula),
                                      !._prev_formula_img = formula_img,
                                      !.ret = formula_img]

CommitDemo(d, op, formula) ==
    /\ cur_formula' = d._renderer.cur_formula
    /\ res_img' = d._renderer.res_img
    /\ _state' = d._renderer._state
    /\ _async_result' = d._renderer._async_result
    /\ _worker' = d._renderer._worker
    /\ task_pc' = d._renderer.task_pc
    /\ _prev_rendered_formula' = d._prev_rendered_formula
    /\ _prev_formula_img' = d._prev_formula_img
    /\ rendered' = [op |-> op, formula |-> formula, ret |-> d.ret,
                    previews |-> d._renderer.previews]

(***************************************************************************)
(* Initial state: Model.__init__ and Renderer.__init__.  Nothing has been  *)
(* scored or phrased.                                                      *)
(***************************************************************************)
RendererInit ==
    /\ cur_formula = RetNone
    /\ res_img = RetNone
    /\ _state = "ready"
    /\ _async_result = RetNone
    /\ _worker = <<>>
    /\ task_pc = "queued"
    /\ rendered = [op |-> "init", formula |-> "", ret |-> RetNone, previews |-> 0]

\* InteractiveDemo.__init__
DemoInit ==
    /\ _prev_rendered_formula = RetNone
    /\ _prev_formula_img = RetNone

NothingScored ==
    /\ res_logits = <<>>
    /\ prob = RetNone

NothingPhrased ==
    /\ id2sign = SignsOnly
    /\ res_targets = <<>>
    /\ phrase = RetNone

ModelInit ==
    /\ is_async \in BOOLEAN
    /\ max_formula_len \in FormulaLens
    /\ model_status = "ready"
    /\ num_infers_decoder = 0
    /\ row_enc_out = Unset
    /\ dec_states_h = Unset
    /\ dec_states_c = Unset
    /\ output = Unset
    /\ tgt = <<>>
    /\ logits = <<>>
    /\ infer_request_handle_encoder = IdleEncoderRequest
    /\ infer_request_handle_decoder = IdleDecoderRequest
    /\ pc = "idle"
    /\ ret = RetNone
    /\ events = <<>>
    /\ call = [op |-> "init", arg |-> NoneTensor]
    /\ decode = NoDecode

Init ==
    /\ ModelInit
    /\ NothingScored
    /\ NothingPhrased
    /\ RendererInit
    /\ DemoInit

\* A Model that is constructed and not called.
ModelNotCalled ==
    /\ ModelInit
    /\ ~is_async
    /\ max_formula_len = MaxLen

(***************************************************************************)
(* Actions.                                                                *)
(***************************************************************************)
\* One call of infer_async(model_input); it asserts self.is_async.
InferAsync ==
    /\ is_async
    /\ pc = "idle"
    /\ \E model_input \in Images \cup {NoneTensor}, env \in Envs :
          \E s \in {infer_async(Self, model_input, env)} :
              /\ Feasible(s)
              /\ Commit(s)
              /\ call' = [op |-> "infer_async", arg |-> model_input]
              /\ decode' = Tracked(s, "infer_async", model_input)
    /\ pc' = pc
    /\ UNCHANGED <<vocab_vars, scorer_vars, renderer_vars, demo_vars>>

\* infer_sync(model_input) is called (it asserts not self.is_async) and runs
\* until _run_encoder returns.
InferSyncRunEncoder ==
    /\ ~is_async
    /\ pc = "idle"
    /\ \E model_input \in Images \cup {NoneTensor}, env \in Envs :
          \E s \in {infer_sync_run_encoder(Self, model_input, env)} :
              /\ Feasible(s)
              /\ Commit(s)
              /\ call' = [op |-> "infer_sync", arg |-> model_input]
              /\ decode' = Tracked(s, "infer_sync", model_input)
              /\ pc' = IF s.ret.kind = "raise" THEN "idle" ELSE "run_decoder"
    /\ UNCHANGED <<vocab_vars, scorer_vars, renderer_vars, demo_vars>>

\* infer_sync goes on with _run_decoder.
InferSyncRunDecoder ==
    /\ pc = "run_decoder"
    /\ \E s \in {infer_sync_run_decoder(Self)} :
           /\ Commit(s)
           /\ decode' = Tracked(s, "infer_sync", call.arg)
    /\ pc' = "loop"
    /\ call' = call
    /\ UNCHANGED <<vocab_vars, scorer_vars, renderer_vars, demo_vars>>

\* One turn of infer_sync's loop; the call returns when res is not None.
InferSyncLoop ==
    /\ pc = "loop"
    /\ \E env \in Envs :
          \E s \in {infer_sync_loop(Self, env)} :
              /\ Feasible(s)
              /\ Commit(s)
              /\ decode' = Tracked(s, "infer_sync", call.arg)
              /\ pc' = IF s.ret = RetNone THEN "loop" ELSE "idle"
    /\ call' = call
    /\ UNCHANGED <<vocab_vars, scorer_vars, renderer_vars, demo_vars>>

Next ==
    \/ InferAsync
    \/ InferSyncRunEncoder
    \/ InferSyncRunDecoder
    \/ InferSyncLoop

Spec == Init /\ [][Next]_vars

\* The demo run without --interactive: main calls infer_sync only.  Every
\* inference wait of infer_sync returns, so a caller inside infer_sync goes
\* on: _run_decoder is reached and each turn of the loop is made.
BlockingInit == Init /\ ~is_async

BlockingNext ==
    \/ InferSyncRunEncoder
    \/ InferSyncRunDecoder
    \/ InferSyncLoop

BlockingSpec ==
    /\ BlockingInit
    /\ [][BlockingNext]_vars
    /\ WF_vars(InferSyncRunDecoder)
    /\ WF_vars(InferSyncLoop)

(***************************************************************************)
(* calculate_probability applied to an array of logits.                    *)
(***************************************************************************)
ScorerInit ==
    /\ ModelNotCalled
    /\ NothingPhrased
    /\ RendererInit
    /\ DemoInit
    /\ res_logits \in ScoreArrays
    /\ prob = RetNone

\* prob = calculate_probability(logits)
CalculateProbability ==
    /\ prob = RetNone
    /\ prob' = Num(calculate_probability(res_logits))
    /\ UNCHANGED <<model_vars, vocab_vars, renderer_vars, demo_vars, res_logits>>

ScorerNext == CalculateProbability

ScorerSpec == ScorerInit /\ [][ScorerNext]_vars

(***************************************************************************)
(* Vocab.construct_phrase applied to a sequence of tokens.                 *)
(***************************************************************************)
VocabInit ==
    /\ ModelNotCalled
    /\ NothingScored
    /\ RendererInit
    /\ DemoInit
    /\ id2sign \in Vocabs
    /\ res_targets \in TokenSeqs
    /\ phrase = RetNone

\* phrase = model.vocab.construct_phrase(targets)
ConstructPhrase ==
    /\ phrase = RetNone
    /\ phrase' = Str(construct_phrase(id2sign, res_targets))
    /\ UNCHANGED <<model_vars, scorer_vars, renderer_vars, demo_vars, id2sign, res_targets>>

VocabNext == ConstructPhrase

VocabSpec == VocabInit /\ [][VocabNext]_vars

(***************************************************************************)
(* The renderer as the demo uses it: main calls render when the demo is    *)
(* not interactive, and InteractiveDemo calls thread_render, on every      *)
(* frame, when it is.                                                      *)
(***************************************************************************)
RendererSpecInit ==
    /\ ModelInit
    /\ max_formula_len = MaxLen
    /\ NothingScored
    /\ NothingPhrased
    /\ RendererInit
    /\ DemoInit

\* renderer.render(phrase)
Render ==
    /\ ~is_async
    /\ \E formula \in RenderPhrases, env \in ToolOutcomes :
          \E r \in {render(RendererSelf, formula, env)} :
              CommitRenderer(r, "render", formula)
    /\ UNCHANGED <<model_vars, vocab_vars, scorer_vars, demo_vars>>

\* self._renderer.thread_render(formula)
ThreadRender ==
    /\ is_async
    /\ \E formula \in RenderPhrases :
          \E r \in {thread_render(RendererSelf, formula)} :
              CommitRenderer(r, "thread_render", formula)
    /\ UNCHANGED <<model_vars, vocab_vars, scorer_vars, demo_vars>>

\* The pool's thread starts the oldest task.
WorkerBegin ==
    /\ _worker # <<>>
    /\ task_pc = "queued"
    /\ \E r \in {worker_begin(RendererSelf)} :
           CommitRenderer(r, "worker", Head(_worker))
    /\ UNCHANGED <<model_vars, vocab_vars, scorer_vars, demo_vars>>

\* The tool returns to the pool's thread, or raises.
WorkerEnd ==
    /\ task_pc = "preview"
    /\ \E env \in ToolOutcomes :
          \E r \in {worker_end(RendererSelf, env)} :
              CommitRenderer(r, "worker", Head(_worker))
    /\ UNCHANGED <<model_vars, vocab_vars, scorer_vars, demo_vars>>

\* The task has returned and the pool sets its result.
WorkerSetReady ==
    /\ task_pc = "returned"
    /\ \E r \in {worker_set_ready(RendererSelf)} :
           CommitRenderer(r, "worker", Head(_worker))
    /\ UNCHANGED <<model_vars, vocab_vars, scorer_vars, demo_vars>>

WorkerRun ==
    \/ WorkerBegin
    \/ WorkerEnd
    \/ WorkerSetReady

RendererNext ==
    \/ Render
    \/ ThreadRender
    \/ WorkerRun

RendererSpec == RendererSpecInit /\ [][RendererNext]_vars

(***************************************************************************)
(* The interactive demo: put_formula_img calls _render_formula_async with  *)
(* the phrase of the frame, on every frame that has one, while the pool's  *)
(* thread runs the submitted task.                                         *)
(***************************************************************************)
InteractiveInit ==
    /\ RendererSpecInit
    /\ is_async

\* formula_img = self._render_formula_async(formula)
RenderFormulaAsync ==
    /\ is_async
    /\ \E formula \in RenderPhrases :
          \E d \in {_render_formula_async(DemoSelf, formula)} :
              CommitDemo(d, "_render_formula_async", formula)
    /\ UNCHANGED <<model_vars, vocab_vars, scorer_vars>>

InteractiveNext ==
    \/ RenderFormulaAsync
    \/ WorkerRun

InteractiveSpec == InteractiveInit /\ [][InteractiveNext]_vars

(***************************************************************************)
(* Properties.                                                             *)
(***************************************************************************)
CountE(evs, e) == Cardinality({i \in 1..Len(evs) : evs[i].e = e})

MaxOf(a, b) == IF a >= b THEN a ELSE b

\* The tokens of a list of logit blobs.
Tokens(lg) == argmax_axis1(squeeze_axis1(lg))

NoEnd(tokens) == \A i \in 1..Len(tokens) : tokens[i] # END_TOKEN

\* A step that consumed the result of a decoder inference.
DecoderStepConsumed == Count(events', "unpack", "decoder") >= 1

\* C1 as stated: with max_formula_len = N and no END_TOKEN emitted, the
\* decode returns after exactly N decoder steps a logit sequence of length N,
\* for every N.
C1_Original ==
    (ret.kind = "result" /\ NoEnd(ret.targets)) =>
        /\ Len(ret.logits) = max_formula_len
        /\ decode.finished = max_formula_len

\* C1 (amended): as long as no END_TOKEN is emitted, the step that consumes
\* the k-th decoder result goes on with a (k+1)-th inference if
\* k < max(N, 1) and ends the decode if k = max(N, 1), returning a logit
\* sequence of that length; k never exceeds it.  So the decode takes exactly
\* N steps for N >= 1, and exactly one step for N <= 0.
C1_ExactlyNSteps ==
    [][ (DecoderStepConsumed /\ NoEnd(Tokens(logits'))) =>
          LET n == MaxOf(max_formula_len, 1)
              k == Len(logits')
          IN  /\ k <= n
              /\ decode'.finished = k
              /\ IF k = n
                 THEN /\ model_status' = "ready"
                      /\ ret' = RetResult(squeeze_axis1(logits'), Tokens(logits'))
                      /\ Len(ret'.logits) = n
                      /\ decode'.submitted = n
                 ELSE /\ model_status' = "decoder_infer"
                      /\ ret' = RetNone
                      /\ decode'.submitted = k + 1 ]_vars

C1_Witness ==
    /\ is_async
    /\ max_formula_len >= 2
    /\ ret.kind = "result"
    /\ NoEnd(ret.targets)
    /\ Len(ret.logits) = max_formula_len
    /\ decode.finished = max_formula_len

\* C2: the step that consumes the first decoder result whose argmax is
\* END_TOKEN, the k-th, ends the decode: no further decoder inference is
\* submitted, k were submitted and finished, and the tokens returned are k
\* long and end with END_TOKEN.  While decoding, no END_TOKEN was seen.
C2_EndTokenStops ==
    [][ /\ model_status' = "decoder_infer" => NoEnd(Tokens(logits'))
        /\ (DecoderStepConsumed /\ ~NoEnd(Tokens(logits'))) =>
              LET k == Len(logits')
              IN  /\ model_status' = "ready"
                  /\ CountE(events', "start_async") = 0
                  /\ decode'.submitted = k
                  /\ decode'.finished = k
                  /\ k <= MaxOf(max_formula_len, 1)
                  /\ ret'.kind = "result"
                  /\ Len(ret'.targets) = k
                  /\ ret'.targets[k] = END_TOKEN
                  /\ NoEnd(SubSeq(ret'.targets, 1, k - 1)) ]_vars

C2_Witness ==
    /\ ret.kind = "result"
    /\ Len(ret.targets) = 2
    /\ ret.targets[2] = END_TOKEN
    /\ max_formula_len > 2
    /\ decode.submitted = 2

\* C3: the step counter goes up by one with every decoder inference
\* submitted, is set to 0 by the step that ends the decode, does not change
\* otherwise, and is 0 whenever the machine is ready.
C3_StepCounter ==
    /\ [](model_status = "ready" => num_infers_decoder = 0)
    /\ [][ IF model_status = "decoder_infer" /\ model_status' = "ready"
           THEN num_infers_decoder' = 0
           ELSE /\ Count(events', "start_async", "decoder") \in {0, 1}
                /\ num_infers_decoder' =
                      num_infers_decoder + Count(events', "start_async", "decoder") ]_vars

C3_Witness ==
    /\ model_status = "decoder_infer"
    /\ num_infers_decoder = 3
    /\ decode.submitted = 3

\* C4: never are the encoder's and the decoder's request both in flight,
\* and whenever a request is submitted no request is in flight.
C4_OneInFlight ==
    /\ ~(/\ infer_request_handle_encoder.st = "running"
         /\ infer_request_handle_decoder.st = "running")
    /\ \A i \in 1..Len(events) :
          events[i].e = "start_async" => ~events[i].busy

C4_Witness ==
    /\ is_async
    /\ infer_request_handle_encoder.st = "done"
    /\ infer_request_handle_decoder.st = "running"
    /\ decode.submitted = 2
    /\ Count(events, "start_async", "decoder") = 1

\* C5 as stated: in blocking mode a wait that returns a non-zero status
\* aborts the decode.  After a failed encoder inference the decoder is not
\* started, the loop over the decoder steps is not entered and no result is
\* returned; after a failed decoder step nothing is unpacked or submitted,
\* and the call ends by raising.
C5_Claim ==
    ~is_async =>
        /\ infer_request_handle_encoder.st = "failed" =>
              /\ model_status # "decoder_infer"
              /\ pc # "loop"
              /\ ret.kind # "result"
        /\ \A i \in 1..Len(events) :
              (/\ events[i].e = "wait"
               /\ events[i].net = "decoder"
               /\ events[i].status # 0) =>
                  /\ \A j \in (i + 1)..Len(events) :
                        events[j].e \notin {"unpack", "start_async"}
                  /\ ret.kind = "raise"

\* The fields a decoder step works on.
StepState ==
    <<model_status, num_infers_decoder, row_enc_out, dec_states_h,
      dec_states_c, output, tgt, logits>>

\* The step is a call that began with a wait returning a non-zero status.
WaitedInVain ==
    /\ Len(events') >= 1
    /\ events'[1].e = "wait"
    /\ events'[1].status # 0

\* C6: in polling mode, a call made in encoder_infer or decoder_infer whose
\* wait returns a non-zero status returns None, changes none of the Model's
\* fields and submits nothing.
C6_NonZeroWaitChangesNothing ==
    [][ (/\ is_async
         /\ model_status \in {"encoder_infer", "decoder_infer"}
         /\ WaitedInVain) =>
            /\ ret' = RetNone
            /\ UNCHANGED StepState
            /\ CountE(events', "start_async") = 0
            /\ CountE(events', "unpack") = 0
            /\ Len(events') = 1 ]_vars

C6_Witness ==
    /\ is_async
    /\ model_status = "decoder_infer"
    /\ Len(logits) = 1
    /\ events = <<Ev("wait", "decoder", -9, TRUE, TRUE)>>

\* The request of the current stage has failed for good.
Stuck ==
    \/ model_status = "encoder_infer" /\ infer_request_handle_encoder.st = "failed"
    \/ model_status = "decoder_infer" /\ infer_request_handle_decoder.st = "failed"

\* The step made a wait that reported a failure.
FailureReported ==
    \E i \in 1..Len(events') :
        events'[i].e = "wait" /\ events'[i].status \in ErrorStatuses

\* C7: in polling mode, a wait that reports a failure leaves the machine
\* waiting for the failed request, and there it stays through every later
\* call (the wait never returns 0): the status stays as it is, never ready,
\* no call returns a result, and a call with an image returns None.
C7_PollsForever ==
    [][ is_async =>
            /\ FailureReported => Stuck'
            /\ Stuck =>
                  /\ Stuck'
                  /\ model_status' = model_status
                  /\ ret'.kind # "result"
                  /\ call'.arg # NoneTensor => ret' = RetNone ]_vars

C7_Witness ==
    /\ is_async
    /\ model_status = "decoder_infer"
    /\ infer_request_handle_decoder.st = "failed"
    /\ Len(logits) = 1
    /\ call.arg # NoneTensor
    /\ ret = RetNone
    /\ events = <<Ev("wait", "decoder", -1, FALSE, TRUE)>>

\* C8: in polling mode, a call without an image made while ready returns
\* None, leaves the machine ready and submits no inference.
C8_Claim ==
    [][ (/\ is_async
         /\ model_status = "ready"
         /\ call'.op = "infer_async"
         /\ call'.arg = NoneTensor) =>
            /\ ret' = RetNone
            /\ model_status' = "ready"
            /\ CountE(events', "start_async") = 0 ]_vars

NextStatus(st) ==
    CASE st = "ready" -> "encoder_infer"
      [] st = "encoder_infer" -> "decoder_infer"
      [] OTHER -> "ready"

\* C9: one infer_async call moves model_status at most one stage on, waits
\* once at most, appends at most one logit vector and submits at most one
\* inference; a decode that returns after k decoder steps has taken at
\* least k + 2 calls.
C9_OneStepPerCall ==
    [][ is_async =>
            /\ model_status' \in {model_status, NextStatus(model_status)}
            /\ CountE(events', "status") <= 1
            /\ CountE(events', "wait") <= 1
            /\ CountE(events', "start_async") <= 1
            /\ Count(events', "unpack", "decoder") <= 1
            /\ \/ logits' = logits
               \/ logits' = <<>>
               \/ /\ Len(logits') = Len(logits) + 1
                  /\ SubSeq(logits', 1, Len(logits)) = logits
            /\ ret'.kind = "result" =>
                  /\ decode'.finished = Len(ret'.logits)
                  /\ decode'.ncalls >= decode'.finished + 2 ]_vars

C9_Witness ==
    /\ is_async
    /\ ret.kind = "result"
    /\ decode.finished = 2
    /\ decode.ncalls = 4

\* The recurrent state after k decoder steps on the image img.
StateOf(blob, img, k) == [blob |-> blob, img |-> img, n |-> k]

\* C10: in polling mode, a call made while the machine is not ready submits
\* no encoder inference whatever image it passes; the encoder's input
\* stays the image passed by the call that left ready, the decoder works
\* on that image's encoding, and the result returned is the one of the
\* decoder steps made on it.
C10_MidDecodeImageIgnored ==
    /\ [][ (is_async /\ model_status # "ready") =>
              /\ Count(events', "start_async", "encoder") = 0
              /\ infer_request_handle_encoder'.inputs =
                    infer_request_handle_encoder.inputs
              /\ decode'.image = decode.image ]_vars
    /\ []((is_async /\ model_status # "ready") =>
              infer_request_handle_encoder.inputs =
                  EncInputs(change_layout(Image(decode.image))))
    /\ []((is_async /\ model_status = "decoder_infer") =>
              /\ row_enc_out = StateOf("row_enc_out", decode.image, 0)
              /\ infer_request_handle_decoder.inputs.row_enc_out = row_enc_out
              /\ dec_states_h.img = decode.image)
    /\ []((is_async /\ ret.kind = "result") =>
              LET k == Len(ret.logits)
              IN  /\ row_enc_out = StateOf("row_enc_out", decode.image, 0)
                  /\ dec_states_h = StateOf("dec_st_h_t", decode.image, k)
                  /\ dec_states_c = StateOf("dec_st_c_t", decode.image, k)
                  /\ output = StateOf("output", decode.image, k))

C10_Witness ==
    /\ is_async
    /\ ret.kind = "result"
    /\ call.arg # NoneTensor
    /\ call.arg.id # decode.image
    /\ Len(ret.logits) = 2

\* C11 as stated: in both modes, the machine is in decoder_infer only after
\* the encoder inference of the current image has completed with status 0.
C11_Claim ==
    model_status = "decoder_infer" =>
        /\ infer_request_handle_encoder.st = "done"
        /\ infer_request_handle_encoder.inputs =
              EncInputs(change_layout(Image(decode.image)))

\* The inputs of the n-th decoder inference of a decode of the image img,
\* lg being the logit blobs of the steps before it.
ChainedInputs(img, n, lg) ==
    IF n = 1
    THEN [row_enc_out |-> StateOf("row_enc_out", img, 0),
          dec_st_c    |-> StateOf("context", img, 0),
          dec_st_h    |-> StateOf("hidden", img, 0),
          output_prev |-> StateOf("init_0", img, 0),
          tgt         |-> << <<START_TOKEN>> >>]
    ELSE [row_enc_out |-> StateOf("row_enc_out", img, 0),
          dec_st_c    |-> StateOf("dec_st_c_t", img, n - 1),
          dec_st_h    |-> StateOf("dec_st_h_t", img, n - 1),
          output_prev |-> StateOf("output", img, n - 1),
          tgt         |-> << << argmax_axis1(lg[n - 1]) >> >>]

\* C12 as stated: the decoder inference in flight or last waited for, the
\* n-th of the decode, was submitted with the current image's encoder
\* outputs and START_TOKEN if n = 1, and with the state, the output and the
\* argmax token of step n - 1 and the same row_enc_out if n > 1; nothing
\* in its inputs comes from another image or another step.
C12_Claim ==
    model_status = "decoder_infer" =>
        /\ decode.submitted = Len(logits) + 1
        /\ infer_request_handle_decoder.inputs =
              ChainedInputs(decode.image, decode.submitted, logits)

\* C13: a step leaves the logit sequence as it is, or appends one vector to
\* it, which it does exactly when it consumes a decoder step, or empties it,
\* which it does exactly when it unpacks the encoder's outputs for a new
\* decode; while decoding the sequence holds one vector per decoder step of
\* this decode but the one in flight, and the result returned is that
\* sequence with one vector per decoder step of this decode.
C13_LogitsAppendOnly ==
    /\ [][ /\ \/ /\ logits' = logits
                 /\ Count(events', "unpack", "decoder") = 0
              \/ /\ Len(logits') = Len(logits) + 1
                 /\ SubSeq(logits', 1, Len(logits)) = logits
                 /\ Count(events', "unpack", "decoder") = 1
                 /\ Count(events', "unpack", "encoder") = 0
              \/ /\ logits' = <<>>
                 /\ Count(events', "unpack", "encoder") = 1
                 /\ Count(events', "unpack", "decoder") = 0
           /\ Count(events', "unpack", "encoder") = 1 => logits' = <<>> ]_vars
    /\ [](model_status = "decoder_infer" => Len(logits) = decode.submitted - 1)
    /\ [](ret.kind = "result" =>
              /\ Len(logits) = decode.submitted
              /\ ret.logits = squeeze_axis1(logits)
              /\ ret.targets = Tokens(logits))

C13_Witness ==
    /\ ret.kind = "result"
    /\ Len(ret.logits) = 2
    /\ decode.finished = 2

\* C14: a step leaves model_status as it is or moves it one stage on in the
\* cycle ready, encoder_infer, decoder_infer, ready; a result is returned by
\* the step that goes from decoder_infer to ready and by no other; and a
\* call with an image made while ready, also after a decode has ended,
\* starts a decode of that image.
C14_StatusCycle ==
    /\ [](model_status \in {"ready", "encoder_infer", "decoder_infer"})
    /\ [][ /\ model_status' \in {model_status, NextStatus(model_status)}
           /\ CountE(events', "status") <= 1
           /\ (model_status = "decoder_infer" /\ model_status' = "ready")
                 <=> ret'.kind = "result"
           /\ (model_status = "ready" /\ call'.arg # NoneTensor) =>
                 /\ model_status' = "encoder_infer"
                 /\ infer_request_handle_encoder'.inputs =
                        EncInputs(change_layout(call'.arg))
                 /\ decode'.image = call'.arg.id ]_vars

\* The logits of an ended decode are still held while the encoder inference
\* of the next image is under way.
C14_Witness ==
    /\ model_status = "encoder_infer"
    /\ logits # <<>>
    /\ call.arg = Image(2)
    /\ decode.image = 2
    /\ infer_request_handle_encoder.inputs = EncInputs(change_layout(Image(2)))

\* C15 as stated: in blocking mode infer_sync returns a result after at
\* most max_formula_len decoder steps.
C15_Original ==
    (~is_async /\ ret.kind = "result") => decode.finished <= max_formula_len

\* C15 (amended): in blocking mode, provided every inference wait returns,
\* a call of infer_sync with an image ends and returns a result; every turn
\* of its loop consumes one decoder step, and it makes at most
\* max(max_formula_len, 1) of them, whatever tokens the decoder emits.
C15_SyncTerminates ==
    /\ (~is_async /\ pc # "idle") ~> (pc = "idle" /\ ret.kind = "result")
    /\ [](~is_async => decode.finished <= MaxOf(max_formula_len, 1))
    /\ [][ (~is_async /\ pc = "loop") =>
              /\ decode'.finished = decode.finished + 1
              /\ pc' = "idle" <=> ret'.kind = "result" ]_vars

C15_Witness ==
    /\ ~is_async
    /\ pc = "idle"
    /\ ret.kind = "result"
    /\ decode.finished = 3
    /\ NoEnd(ret.targets)

\* The position of the first END_TOKEN of a token sequence, and one past
\* its end if it has none.
FirstEnd(ind) ==
    IF \E i \in 1..Len(ind) : ind[i] = END_TOKEN
    THEN CHOOSE i \in 1..Len(ind) :
             /\ ind[i] = END_TOKEN
             /\ \A j \in 1..(i - 1) : ind[j] # END_TOKEN
    ELSE Len(ind) + 1

\* The string a vocabulary table maps a token to.
SignOf(tbl, tok) == IF tok \in DOMAIN tbl THEN tbl[tok] ELSE "?"

\* The mapped strings of the tokens before position k.
SignsBefore(tbl, ind, k) == [i \in 1..(k - 1) |-> SignOf(tbl, ind[i])]

\* Strings put one after the other with one space between two of them.
RECURSIVE SpaceJoined(_)
SpaceJoined(strs) ==
    IF strs = <<>> THEN ""
    ELSE IF Len(strs) = 1 THEN strs[1]
    ELSE SpaceJoined(SubSeq(strs, 1, Len(strs) - 1)) \o " " \o strs[Len(strs)]

\* C16: for a token sequence whose first END_TOKEN is at position k (or
\* that has none, k being one past its end), construct_phrase returns the
\* mapped strings of the tokens before k joined by single spaces, which is
\* what it returns for those tokens alone: END_TOKEN and all that follows
\* it is ignored.  The tokens 1, 3, 4, END_TOKEN give "x + y".
C16_PhraseUpToEnd ==
    phrase # RetNone =>
        LET k == FirstEnd(res_targets)
        IN  /\ phrase = Str(SpaceJoined(SignsBefore(id2sign, res_targets, k)))
            /\ phrase = Str(construct_phrase(id2sign, SubSeq(res_targets, 1, k - 1)))
            /\ res_targets = <<1, 3, 4, END_TOKEN>> => phrase = Str("x + y")

C16_Witness ==
    /\ res_targets = <<1, 3, END_TOKEN, 4>>
    /\ phrase = Str("x +")

\* Two phrases made one.
Glue(a, b) ==
    IF a = "" THEN b
    ELSE IF b = "" THEN a
    ELSE a \o " " \o b

\* C17: construct_phrase returns a string for every token sequence; for a
\* token before the first END_TOKEN that is not a key of the vocabulary
\* table, the phrase is the phrase of the tokens before it, then "?", then
\* the phrase of the tokens after it.
C17_UnknownTokens ==
    phrase # RetNone =>
        /\ phrase.kind = "str"
        /\ \A i \in 1..Len(res_targets) :
              (i < FirstEnd(res_targets) /\ res_targets[i] \notin DOMAIN id2sign) =>
                  phrase.str =
                      Glue(Glue(construct_phrase(id2sign, SubSeq(res_targets, 1, i - 1)),
                                "?"),
                           construct_phrase(id2sign,
                               SubSeq(res_targets, i + 1, Len(res_targets))))

C17_Witness ==
    /\ id2sign = SignsOnly
    /\ res_targets = <<1, 0, 4>>
    /\ phrase = Str("x ? y")

\* The largest entry of a row.
RowMax(v) ==
    CHOOSE m \in {v[i] : i \in 1..Len(v)} : \A i \in 1..Len(v) : v[i] <= m

\* C18: calculate_probability returns 1 for an array of no rows, the
\* largest entry of the row for one row, the product of the two largest
\* entries for two rows, and for s followed by a row v what it returns
\* for s, times the largest entry of v.
C18_ProductOfMaxima ==
    prob # RetNone =>
        LET n == Len(res_logits)
        IN  /\ n = 0 => prob = Num(1)
            /\ n = 1 => prob = Num(RowMax(res_logits[1]))
            /\ n = 2 => prob = Num(RowMax(res_logits[1]) * RowMax(res_logits[2]))
            /\ n >= 1 =>
                  prob = Num(calculate_probability(SubSeq(res_logits, 1, n - 1))
                                 * RowMax(res_logits[n]))

C18_Witness ==
    /\ res_logits = << <<1, 8, 1>>, <<0, 1, 9>>, <<1, 4, 4>> >>
    /\ prob = Num(288)

\* C19 as stated: of two consecutive render calls with the same phrase, at
\* most one invokes the typesetting tool, and the second returns what the
\* first returned: the pair of the bitmap and the phrase.
C19_Claim ==
    [][ (/\ rendered.op = "render"
         /\ rendered'.op = "render"
         /\ rendered'.formula = rendered.formula) =>
            /\ rendered.previews + rendered'.previews <= 1
            /\ rendered'.ret.kind = "tuple"
            /\ rendered'.ret = rendered.ret ]_vars

\* C20: the pool never holds more than one task, and none while the
\* renderer is ready; a thread_render call made while ready submits one
\* task, for its formula, and returns None; a thread_render call made while
\* rendering submits nothing, and leaves no trace of its formula: the
\* pool's tasks, cur_formula, res_img and the AsyncResult stay as they are.
C20_OneRenderJob ==
    /\ [](Len(_worker) <= 1)
    /\ [](_state = "ready" => _worker = <<>>)
    /\ [][ rendered'.op = "thread_render" =>
              IF _state = "ready"
              THEN /\ _worker' = <<rendered'.formula>>
                   /\ _state' = "rendering"
                   /\ rendered'.ret = RetNone
              ELSE /\ _worker' = _worker
                   /\ UNCHANGED <<cur_formula, res_img, _async_result>> ]_vars

C20_Witness ==
    /\ _state = "rendering"
    /\ _worker = <<"x">>
    /\ rendered.op = "thread_render"
    /\ rendered.formula = "y"
    /\ rendered.ret = RetNone
    /\ cur_formula = Str("x + y")

\* C22: every result returned by infer_sync or infer_async holds at least one
\* logit vector, whatever max_formula_len is (0 and negative values
\* included) and also when the first decoder step gives END_TOKEN: the step
\* that ends a decode has consumed the result of a decoder inference.
C22_AtLeastOneLogit ==
    /\ [](ret.kind = "result" =>
              /\ Len(ret.logits) >= 1
              /\ Len(ret.targets) = Len(ret.logits)
              /\ decode.finished >= 1)
    /\ [][ ret'.kind = "result" =>
              /\ DecoderStepConsumed
              /\ Len(logits') = Len(logits) + 1 ]_vars

C22_Witness ==
    /\ max_formula_len = MinFormulaLen
    /\ ret.kind = "result"
    /\ ret.targets = <<END_TOKEN>>
    /\ decode.finished = 1

\* C23: while model_status is decoder_infer the step counter is the number
\* of logit vectors collected so far plus one, and it is 0 while
\* model_status is ready or encoder_infer.
C23_CounterAndLogits ==
    /\ model_status = "decoder_infer" => num_infers_decoder = Len(logits) + 1
    /\ model_status \in {"ready", "encoder_infer"} => num_infers_decoder = 0

C23_Witness ==
    /\ model_status = "decoder_infer"
    /\ num_infers_decoder = 3
    /\ Len(logits) = 2
    /\ decode.image = 2

\* C24: in polling mode a result is returned only by the call during which
\* model_status goes from decoder_infer to ready, the call before it
\* returned none, and the call with an image that follows a result returns
\* None and submits the encoder inference of a new decode of that image.
C24_DeliveredOnce ==
    [][ is_async =>
          /\ ret'.kind = "result" =>
                /\ model_status = "decoder_infer"
                /\ model_status' = "ready"
                /\ ret.kind # "result"
          /\ (ret.kind = "result" /\ call'.arg # NoneTensor) =>
                /\ ret' = RetNone
                /\ model_status' = "encoder_infer"
                /\ Count(events', "start_async", "encoder") = 1
                /\ decode'.image = call'.arg.id
                /\ decode'.submitted = 0
                /\ decode'.finished = 0 ]_vars

\* A second decode has been started by the call after the one that returned
\* the result of the first.
C24_Witness ==
    /\ is_async
    /\ model_status = "encoder_infer"
    /\ ret = RetNone
    /\ logits # <<>>
    /\ decode.image = 1
    /\ decode.ncalls = 1

\* The renderer's last attempt to typeset a formula failed.
LastAttemptFailed == cur_formula # RetNone /\ res_img = RetNone

\* A call of _render_formula_async(f) that finds a finished task.
PollsFinished(f) ==
    /\ _prev_rendered_formula # Str(f)
    /\ _state = "rendering"
    /\ _async_result.ready

\* The demo holds an image of the formula f.
HasImageOf(f) ==
    _prev_rendered_formula = Str(f) /\ _prev_formula_img # RetNone

\* C21 as stated: when a background attempt has failed, the call that polls
\* it puts the renderer back to ready and returns None; the next request
\* for a phrase no image is held of, also one for the same phrase, submits
\* a new task; and that task invokes the typesetting tool again.
C21_Claim ==
    [][ /\ (rendered'.op = "_render_formula_async" /\ LastAttemptFailed
                /\ PollsFinished(rendered'.formula)) =>
              /\ _state' = "ready"
              /\ rendered'.ret = RetNone
        /\ (rendered'.op = "_render_formula_async" /\ LastAttemptFailed
                /\ _state = "ready"
                /\ ~HasImageOf(rendered'.formula)) =>
              /\ _state' = "rendering"
              /\ _worker' = <<rendered'.formula>>
        /\ (rendered'.op = "worker" /\ task_pc = "queued"
                /\ LastAttemptFailed) =>
              task_pc' = "preview" ]_vars

\* C25: _render_formula_async(f) returns None or the image made by
\* rendering f; when the finished task was for another formula it returns
\* None and leaves the cached pair as it is; the pair changes only in a call
\* that polls a finished task for f itself, and then becomes f and the
\* image of that task; so the cached image is always None or the image of
\* the cached formula.
C25_StaleDiscarded ==
    /\ [](/\ _prev_rendered_formula = RetNone => _prev_formula_img = RetNone
          /\ _prev_formula_img # RetNone =>
                _prev_formula_img = Bitmap(_prev_rendered_formula.str))
    /\ [][ rendered'.op = "_render_formula_async" =>
              LET f == rendered'.formula
              IN  /\ rendered'.ret \in {RetNone, Bitmap(f)}
                  /\ (demo_vars' # demo_vars) =>
                        /\ PollsFinished(f)
                        /\ cur_formula = Str(f)
                        /\ _prev_rendered_formula' = Str(f)
                        /\ _prev_formula_img' = res_img
                        /\ rendered'.ret = res_img
                  /\ (PollsFinished(f) /\ cur_formula # Str(f)) =>
                        /\ rendered'.ret = RetNone
                        /\ UNCHANGED demo_vars
                        /\ _state' = "ready" ]_vars

\* The image of "x" is ready when "y" is asked for, after "x + y" was shown.
C25_Witness ==
    /\ rendered.op = "_render_formula_async"
    /\ rendered.formula = "y"
    /\ rendered.ret = RetNone
    /\ cur_formula = Str("x")
    /\ res_img = Bitmap("x")
    /\ _state = "ready"
    /\ _prev_rendered_formula = Str("x + y")
    /\ _prev_formula_img = Bitmap("x + y")

====
